---- MODULE Spec2Model ----
(***************************************************************************)
(* Model of base_line/1_aimd_m3gnet_features.py: the batch feature         *)
(* extraction pipeline (main, read_extxyz_structures, validate_structures, *)
(* extract_features_parallel, process_structure_batch,                     *)
(* save_features_to_hdf5).                                                 *)
(*                                                                         *)
(* Python indices are 0-based and are kept 0-based in the records          *)
(* (structure_index, batch_indices); TLA+ sequences are 1-based, so the    *)
(* structure with original index i is structures[i + 1].                   *)
(***************************************************************************)
EXTENDS Integers, Sequences, FiniteSets, TLC

\* ---- bounds of the model ----
MaxN == 4          \* longest structure file
MaxBatch == 2      \* largest --batch_size
MaxJobs == 2       \* largest --n_jobs
MaxAtoms == 2      \* largest atom count of a structure
MaxRecs == 2       \* longest record list handed directly to save_features_to_hdf5

VARIABLES
  pc,             \* position of the caller's control flow
  caller,         \* "main", "extract" (extract_features_parallel called directly) or "save"
  inputExists,    \* os.path.exists(args.input)
  loadOk,         \* FALSE when ase.io.read raises
  validate_only,  \* args.validate_only
  fileStructures, \* the structures the input file holds
  structures,     \* the list main / extract_features_parallel works on
  batch_size,     \* args.batch_size
  n_jobs,         \* args.n_jobs
  batches,        \* the batch list of extract_features_parallel
  status,         \* per batch: "pending", "running" or "done" (worker side)
  result,         \* per batch: what its process_structure_batch call returned
  runCount,       \* per batch: number of process_structure_batch calls on it
  batch_results,  \* results the tqdm/imap iterator has yielded so far
  completed,      \* progress count of tqdm (batches collected)
  all_features,   \* the record list being merged / returned / saved
  file,           \* the output HDF5 file
  raised,         \* exception that escaped save_features_to_hdf5 ("none" if none)
  exitCode        \* process exit code: -1 while running

vars == <<pc, caller, inputExists, loadOk, validate_only, fileStructures,
          structures, batch_size, n_jobs, batches, status, result, runCount,
          batch_results, completed, all_features, file, raised, exitCode>>

\* ---- data ----
\* A structure (ase.Atoms): len(structure) is its atom count; ok = FALSE marks
\* a structure on which M3GNetStructure.transform raises.
StructureSet == [atoms : 1..MaxAtoms, ok : BOOLEAN]

SeqsUpTo(S, n) == UNION {[1..k -> S] : k \in 0..n}

Min(a, b) == IF a < b THEN a ELSE b

\* The feature vector M3GNetStructure computes for one structure (fixed length).
EncodeOne(s) == <<s.atoms, s.atoms + 10>>

\* structure_encoder.transform(batch_structures): one vector per structure.
Transform(batch_structures) ==
  [i \in 1..Len(batch_structures) |-> EncodeOne(batch_structures[i])]

\* transform raises on a batch holding a structure it cannot encode.
EncoderRaises(batch_structures) ==
  \E i \in 1..Len(batch_structures) : ~batch_structures[i].ok

\* ---- extract_features_parallel: batch preparation (lines 69-76) ----
EndIdxUnclamped(i, bs, total) == i + bs

EndIdx(i, bs, total) == Min(i + bs, total)

RECURSIVE BuildBatches(_, _, _, _)
BuildBatches(strs, bs, i, acc) ==
  IF i >= Len(strs) THEN acc
  ELSE LET end_idx == EndIdx(i, bs, Len(strs))
           batch == [batch_structures |-> SubSeq(strs, i + 1, Min(end_idx, Len(strs))),
                     batch_indices    |-> [j \in 1..(end_idx - i) |-> i + j - 1],
                     batch_id         |-> Len(acc) + 1]
       IN BuildBatches(strs, bs, i + bs, Append(acc, batch))

Batches(strs, bs) == BuildBatches(strs, bs, 0, <<>>)

\* ---- process_structure_batch (lines 37-62) ----
RecordIndexLocal(batch, idx) == idx - 1

RecordIndex(batch, idx) == batch.batch_indices[idx]

BatchRecords(batch) ==
  LET feats == Transform(batch.batch_structures)
      n == Min(Len(batch.batch_indices), Len(feats))
  IN [idx \in 1..n |->
        [structure_index |-> RecordIndex(batch, idx),
         features        |-> feats[idx],
         num_atoms       |-> batch.batch_structures[idx].atoms]]

process_structure_batch(batch) ==
  IF EncoderRaises(batch.batch_structures) THEN <<>> ELSE BatchRecords(batch)

\* ---- merge and sort (lines 97-102) ----
RECURSIVE Flatten(_)
Flatten(rs) == IF rs = <<>> THEN <<>> ELSE Head(rs) \o Flatten(Tail(rs))

\* insert r after every element whose key is <= r's (stable)
RECURSIVE InsertByIndex(_, _)
InsertByIndex(r, s) ==
  IF s = <<>> THEN <<r>>
  ELSE IF r.structure_index < Head(s).structure_index THEN <<r>> \o s
       ELSE <<Head(s)>> \o InsertByIndex(r, Tail(s))

RECURSIVE SortAscending(_)
SortAscending(s) ==
  IF s = <<>> THEN <<>>
  ELSE InsertByIndex(s[Len(s)], SortAscending(SubSeq(s, 1, Len(s) - 1)))

RECURSIVE InsertDescending(_, _)
InsertDescending(r, s) ==
  IF s = <<>> THEN <<r>>
  ELSE IF r.structure_index > Head(s).structure_index THEN <<r>> \o s
       ELSE <<Head(s)>> \o InsertDescending(r, Tail(s))

RECURSIVE SortDescending(_)
SortDescending(s) ==
  IF s = <<>> THEN <<>>
  ELSE InsertDescending(s[Len(s)], SortDescending(SubSeq(s, 1, Len(s) - 1)))

\* all_features.sort(key=lambda x: x['structure_index'])
SortByIndex(s) == SortAscending(s)

\* ---- save_features_to_hdf5 (lines 107-135) ----
NoFile == [state |-> "absent", num_structures |-> 0, feature_dim |-> 0,
           structure_indices |-> <<>>, num_atoms |-> <<>>, features |-> <<>>]

SameDim(features) ==
  \A i \in 1..Len(features) : Len(features[i].features) = Len(features[1].features)

\* h5py.File(output_file, 'w') has created the file and the metadata group,
\* attributes, structure_indices and num_atoms were written when np.vstack
\* raises ValueError on rows of different length; the with-block closes the
\* file and the exception propagates.
PartialFile(features) ==
  [state |-> "partial", num_structures |-> Len(features),
   feature_dim |-> Len(features[1].features),
   structure_indices |-> [i \in 1..Len(features) |-> features[i].structure_index],
   num_atoms |-> [i \in 1..Len(features) |-> features[i].num_atoms],
   features |-> <<>>]

CompleteFile(features) ==
  [state |-> "complete", num_structures |-> Len(features),
   feature_dim |-> Len(features[1].features),
   structure_indices |-> [i \in 1..Len(features) |-> features[i].structure_index],
   num_atoms |-> [i \in 1..Len(features) |-> features[i].num_atoms],
   features |-> [i \in 1..Len(features) |-> features[i].features]]

EmptyContainer(old) ==
  [file |-> [NoFile EXCEPT !.state = "complete"], raised |-> "none"]

\* `if not features: print(...); return`
SaveEmpty(old) == [file |-> old, raised |-> "none"]

save_features_to_hdf5(features, old) ==
  IF features = <<>> THEN SaveEmpty(old)
  ELSE IF SameDim(features)
       THEN [file |-> CompleteFile(features), raised |-> "none"]
       ELSE [file |-> PartialFile(features), raised |-> "ValueError"]

\* ---- main (lines 159-219) ----
\* read_extxyz_structures: the file's structures, [] when read raises
read_extxyz_structures(fs, ok) == IF ok THEN fs ELSE <<>>

\* validate_structures: `if not structures: return False`
validate_structures(strs) == strs # <<>>

AllExtracted(features) == Len(features) = Len(structures)

AlwaysSave(features) == TRUE

\* `if features:` of main
HasFeatures(features) == features # <<>>


\* ---- initial states ----
RecordSet == [structure_index : 0..(MaxRecs - 1), features : SeqsUpTo({1}, 2) \ {<<>>},
              num_atoms : 1..MaxAtoms]

InitCommon ==
  /\ batches = <<>>
  /\ status = <<>>
  /\ result = <<>>
  /\ runCount = <<>>
  /\ batch_results = <<>>
  /\ completed = 0
  /\ file = NoFile
  /\ raised = "none"
  /\ exitCode = -1

\* the command line entry point
Init ==
  /\ pc = "start"
  /\ caller = "main"
  /\ inputExists \in BOOLEAN
  /\ loadOk \in BOOLEAN
  /\ validate_only \in BOOLEAN
  /\ fileStructures \in SeqsUpTo(StructureSet, MaxN)
  /\ structures = <<>>
  /\ batch_size \in 1..MaxBatch
  /\ n_jobs \in 1..MaxJobs
  /\ all_features = <<>>
  /\ InitCommon

\* extract_features_parallel(structures, batch_size, n_jobs) called on its own
InitExtract ==
  /\ pc = "extract"
  /\ caller = "extract"
  /\ inputExists = TRUE
  /\ loadOk = TRUE
  /\ validate_only = FALSE
  /\ fileStructures = <<>>
  /\ structures \in SeqsUpTo(StructureSet, MaxN)
  /\ batch_size \in 1..MaxBatch
  /\ n_jobs \in 1..MaxJobs
  /\ all_features = <<>>
  /\ InitCommon

\* save_features_to_hdf5(features, output_file) called on its own
InitSave ==
  /\ pc = "save_call"
  /\ caller = "save"
  /\ inputExists = TRUE
  /\ loadOk = TRUE
  /\ validate_only = FALSE
  /\ fileStructures = <<>>
  /\ structures = <<>>
  /\ batch_size = 1
  /\ n_jobs = 1
  /\ all_features \in SeqsUpTo(RecordSet, MaxRecs)
  /\ InitCommon

\* ---- main ----
inputVars == <<caller, inputExists, loadOk, validate_only, fileStructures, batch_size, n_jobs>>
poolVars == <<batches, status, result, runCount, batch_results, completed>>

\* lines 176-179: `if not os.path.exists(args.input): sys.exit(1)`
CheckInput ==
  /\ pc = "start"
  /\ IF inputExists
     THEN pc' = "load" /\ exitCode' = exitCode
     ELSE pc' = "exited" /\ exitCode' = 1
  /\ UNCHANGED <<inputVars, poolVars, structures, all_features, file, raised>>

\* lines 187-202: load, validate, --validate_only, output directory
LoadAndValidate ==
  /\ pc = "load"
  /\ structures' = read_extxyz_structures(fileStructures, loadOk)
  /\ IF ~validate_structures(structures')
     THEN pc' = "exited" /\ exitCode' = 1
     ELSE IF validate_only
          THEN pc' = "exited" /\ exitCode' = 0
          ELSE pc' = "extract" /\ exitCode' = exitCode
  /\ UNCHANGED <<inputVars, poolVars, all_features, file, raised>>

\* ---- extract_features_parallel ----
\* lines 66-83: build the batch list, pick the mode
PrepareBatches ==
  /\ pc = "extract"
  /\ batches' = Batches(structures, batch_size)
  /\ status' = [k \in 1..Len(batches') |-> "pending"]
  /\ result' = [k \in 1..Len(batches') |-> <<>>]
  /\ runCount' = [k \in 1..Len(batches') |-> 0]
  /\ batch_results' = <<>>
  /\ completed' = 0
  /\ all_features' = <<>>
  /\ pc' = IF n_jobs = 1 THEN "seq" ELSE "pool"
  /\ UNCHANGED <<inputVars, structures, file, raised, exitCode>>

\* lines 85-87: one iteration of the sequential loop
SeqStep ==
  /\ pc = "seq"
  /\ completed < Len(batches)
  /\ LET k == completed + 1
         batch_result == process_structure_batch(batches[k])
     IN /\ runCount' = [runCount EXCEPT ![k] = @ + 1]
        /\ result' = [result EXCEPT ![k] = batch_result]
        /\ status' = [status EXCEPT ![k] = "collected"]
        /\ all_features' = all_features \o batch_result
        /\ completed' = k
  /\ UNCHANGED <<inputVars, structures, batches, batch_results, pc, file, raised, exitCode>>

Running == {k \in 1..Len(batches) : status[k] = "running"}

RetryFailed(k) ==
  \/ status[k] = "pending"
  \/ status[k] = "done" /\ result[k] = <<>> /\ runCount[k] < 2

\* a task is taken from the pool's task queue once
Submittable(k) == status[k] = "pending"

\* lines 90-92: an idle worker of the pool takes the next queued batch
WorkerStart(k) ==
  /\ pc = "pool"
  /\ Cardinality(Running) < n_jobs
  /\ Submittable(k)
  /\ \A j \in 1..(k - 1) : ~Submittable(j)
  /\ status' = [status EXCEPT ![k] = "running"]
  /\ runCount' = [runCount EXCEPT ![k] = @ + 1]
  /\ UNCHANGED <<inputVars, structures, batches, result, batch_results, completed,
                 all_features, pc, file, raised, exitCode>>

\* a worker returns from process_structure_batch; workers finish in any order
WorkerFinish(k) ==
  /\ pc = "pool"
  /\ status[k] = "running"
  /\ status' = [status EXCEPT ![k] = "done"]
  /\ result' = [result EXCEPT ![k] = process_structure_batch(batches[k])]
  /\ UNCHANGED <<inputVars, structures, batches, runCount, batch_results, completed,
                 all_features, pc, file, raised, exitCode>>

CanCollectUnordered(k) == status[k] = "done"

\* pool.imap yields results in submission order: the next one only
CanCollect(k) == status[k] = "done" /\ k = completed + 1

\* lines 91-95: tqdm takes one result from the imap iterator
ImapYield(k) ==
  /\ pc = "pool"
  /\ CanCollect(k)
  /\ status' = [status EXCEPT ![k] = "collected"]
  /\ batch_results' = Append(batch_results, result[k])
  /\ completed' = completed + 1
  /\ UNCHANGED <<inputVars, structures, batches, result, runCount,
                 all_features, pc, file, raised, exitCode>>

ImapExhaustedEarly == completed >= 1 \/ Len(batches) = 0

\* list(...) returns when the iterator has yielded every batch
ImapExhausted == completed = Len(batches)

\* lines 97-105: merge (pooled mode), sort, return
FinishExtract ==
  /\ \/ pc = "seq" /\ completed = Len(batches)
     \/ pc = "pool" /\ ImapExhausted
  /\ all_features' = SortByIndex(IF pc = "seq" THEN all_features
                                 ELSE Flatten(batch_results))
  /\ pc' = IF caller = "main" THEN "save" ELSE "returned"
  /\ UNCHANGED <<inputVars, poolVars, structures, file, raised, exitCode>>

\* lines 212-219 of main
MainSave ==
  /\ pc = "save"
  /\ IF HasFeatures(all_features)
     THEN LET r == save_features_to_hdf5(all_features, file)
          IN /\ file' = r.file
             /\ raised' = r.raised
             /\ exitCode' = IF r.raised = "none" THEN 0 ELSE 1
     ELSE /\ exitCode' = 1
          /\ UNCHANGED <<file, raised>>
  /\ pc' = "exited"
  /\ UNCHANGED <<inputVars, poolVars, structures, all_features>>

\* KeyboardInterrupt while extract_features_parallel runs: it is not an
\* Exception, nothing catches it, the pool is terminated and main dies
Interrupt ==
  /\ caller = "main"
  /\ pc \in {"extract", "seq", "pool"}
  /\ pc' = "interrupted"
  /\ exitCode' = 130
  /\ UNCHANGED <<inputVars, poolVars, structures, all_features, file, raised>>

\* a direct call of save_features_to_hdf5
SaveCall ==
  /\ pc = "save_call"
  /\ LET r == save_features_to_hdf5(all_features, file)
     IN /\ file' = r.file
        /\ raised' = r.raised
  /\ pc' = "save_returned"
  /\ UNCHANGED <<inputVars, poolVars, structures, all_features, exitCode>>

Next ==
  \/ CheckInput
  \/ LoadAndValidate
  \/ PrepareBatches
  \/ SeqStep
  \/ \E k \in 1..Len(batches) : WorkerStart(k)
  \/ \E k \in 1..Len(batches) : WorkerFinish(k)
  \/ \E k \in 1..Len(batches) : ImapYield(k)
  \/ FinishExtract
  \/ MainSave
  \/ Interrupt

NextExtract ==
  \/ PrepareBatches
  \/ SeqStep
  \/ \E k \in 1..Len(batches) : WorkerStart(k)
  \/ \E k \in 1..Len(batches) : WorkerFinish(k)
  \/ \E k \in 1..Len(batches) : ImapYield(k)
  \/ FinishExtract

NextSave == SaveCall

Spec == Init /\ [][Next]_vars

SpecExtract == InitExtract /\ [][NextExtract]_vars

SpecSave == InitSave /\ [][NextSave]_vars

TypeOK ==
  /\ pc \in {"start", "load", "extract", "seq", "pool", "save", "exited",
             "interrupted", "returned", "save_call", "save_returned"}
  /\ completed \in 0..Len(batches)
  /\ exitCode \in {-1, 0, 1, 130}


\* ==== properties ====
\* What the claims speak of, stated from the input alone.
N == Len(structures)

\* index i lies in a batch on which the encoder does not raise
GoodIndex(i) ==
  \A j \in 0..(N - 1) : (j \div batch_size = i \div batch_size) => structures[j + 1].ok

ExpectedRecord(i) ==
  [structure_index |-> i, features |-> EncodeOne(structures[i + 1]),
   num_atoms |-> structures[i + 1].atoms]

RECURSIVE ExpectedFrom(_)
ExpectedFrom(i) ==
  IF i >= N THEN <<>>
  ELSE (IF GoodIndex(i) THEN <<ExpectedRecord(i)>> ELSE <<>>) \o ExpectedFrom(i + 1)

\* the records of the batches that do not fail, in input order
ExpectedRecords == ExpectedFrom(0)

IndexSet(batch) == {batch.batch_indices[j] : j \in 1..Len(batch.batch_indices)}

RECURSIVE SumSizes(_)
SumSizes(bs) == IF bs = <<>> THEN 0 ELSE Len(Head(bs).batch_indices) + SumSizes(Tail(bs))

BatchesBuilt == pc \in {"seq", "pool", "save", "returned"}

\* C1: the batch list tiles [0, N): batch k (0-indexed) holds the indices
\* [k*batch_size, min((k+1)*batch_size, N)) and the structures at them, start
\* indices strictly increase, sizes sum to N, every index is in exactly one
\* batch, only the last batch may be short, and N = 0 gives no batch.
C1_BatchesTile ==
  BatchesBuilt =>
    /\ (N = 0 => batches = <<>>)
    /\ SumSizes(batches) = N
    /\ \A k \in 1..Len(batches) :
         LET lo == (k - 1) * batch_size
             hi == Min(k * batch_size, N)
         IN /\ lo < hi
            /\ batches[k].batch_indices = [j \in 1..(hi - lo) |-> lo + j - 1]
            /\ batches[k].batch_structures = [j \in 1..(hi - lo) |-> structures[lo + j]]
            /\ batches[k].batch_id = k
            /\ k < Len(batches) => Len(batches[k].batch_indices) = batch_size
            /\ k > 1 => batches[k - 1].batch_indices[1] < batches[k].batch_indices[1]
    /\ \A i \in 0..(N - 1) :
         Cardinality({k \in 1..Len(batches) : i \in IndexSet(batches[k])}) = 1
    /\ \A k \in 1..Len(batches) : IndexSet(batches[k]) \subseteq 0..(N - 1)

C1_Witness ==
  /\ BatchesBuilt
  /\ Len(batches) >= 2
  /\ Len(batches[Len(batches)].batch_indices) < batch_size

IsSortedAscending(s) ==
  \A i \in 1..(Len(s) - 1) : s[i].structure_index < s[i + 1].structure_index

\* C2: whatever n_jobs is and in whatever order the workers finish,
\* extract_features_parallel returns the same sequence, the one fixed by the
\* input and batch_size alone, sorted by structure_index ascending.
C2_SameResultAnyJobs ==
  pc = "returned" => (all_features = ExpectedRecords /\ IsSortedAscending(all_features))

C2_Witness ==
  /\ pc = "returned"
  /\ n_jobs > 1
  /\ Len(all_features) >= 2
  /\ Len(all_features) < N

SomeBatchFailed == \E i \in 0..(N - 1) : ~GoodIndex(i)
SomeBatchSucceeded == \E i \in 0..(N - 1) : GoodIndex(i)
ExtractionRan == pc = "exited" /\ batches # <<>>

\* C3: when some but not all batches fail, main exits with code 0 and the
\* written table holds exactly the records of the batches that did not fail,
\* in ascending structure_index order.
C3_PartialFailure ==
  (ExtractionRan /\ SomeBatchFailed /\ SomeBatchSucceeded) =>
    /\ exitCode = 0
    /\ file = CompleteFile(ExpectedRecords)
    /\ \A r \in 1..Len(file.structure_indices) : GoodIndex(file.structure_indices[r])
    /\ \A i \in 0..(N - 1) :
         GoodIndex(i) => \E r \in 1..Len(file.structure_indices) : file.structure_indices[r] = i

C3_Witness ==
  /\ ExtractionRan
  /\ Len(batches) = 3
  /\ ~GoodIndex(batches[2].batch_indices[1])
  /\ GoodIndex(batches[1].batch_indices[1])
  /\ GoodIndex(batches[3].batch_indices[1])
  /\ exitCode = 0
  /\ file.state = "complete"

\* C4: the record emitted for local offset i of a batch carries
\* structure_index = start_index + i, the encoder's vector of that structure
\* and its atom count; every row of the written table is aligned the same way.
C4_Alignment ==
  /\ \A k \in 1..Len(result) : \A idx \in 1..Len(result[k]) :
       LET i == (k - 1) * batch_size + (idx - 1)
       IN /\ result[k][idx].structure_index = i
          /\ result[k][idx].features = EncodeOne(structures[i + 1])
          /\ result[k][idx].num_atoms = structures[i + 1].atoms
  /\ file.state = "complete" =>
       \A r \in 1..file.num_structures :
         LET i == file.structure_indices[r]
         IN /\ i \in 0..(N - 1)
            /\ file.features[r] = EncodeOne(structures[i + 1])
            /\ file.num_atoms[r] = structures[i + 1].atoms

C4_Witness ==
  /\ file.state = "complete"
  /\ file.num_structures >= 2
  /\ file.structure_indices[1] > 0
  /\ file.features[1] # file.features[2]

\* C5: a record list with feature vectors of different lengths makes
\* save_features_to_hdf5 fail and leaves no output file.
C5_MismatchLeavesNoFile ==
  (pc = "save_returned" /\ ~SameDim(all_features)) =>
    (raised # "none" /\ file.state = "absent")

C7_EmptyRaises ==
  (pc = "save_returned" /\ all_features = <<>>) =>
    (raised # "none" /\ file.state = "absent")

\* C7 amended: save_features_to_hdf5 on an empty list returns normally,
\* raising nothing, and neither creates nor writes the destination.
C7_EmptyReturnsQuietly ==
  (pc = "save_returned" /\ all_features = <<>>) =>
    (raised = "none" /\ file = NoFile)

C7_Witness == pc = "save_returned" /\ all_features = <<>>

Loaded == read_extxyz_structures(fileStructures, loadOk)

\* C8: main exits nonzero and writes nothing when the input is missing, when
\* no structure was loaded, or when every batch failed; in the first two
\* cases extraction is never entered and no batch is dispatched.
C8_FatalExits ==
  /\ (~inputExists \/ Loaded = <<>>) =>
       /\ batches = <<>>
       /\ pc \in {"start", "load", "exited"}
       /\ file.state = "absent"
  /\ (pc = "exited" /\ (~inputExists \/ Loaded = <<>>)) => exitCode = 1
  /\ (ExtractionRan /\ ~SomeBatchSucceeded) => (exitCode = 1 /\ file.state = "absent")

C8_Witness ==
  /\ ExtractionRan
  /\ Len(batches) >= 2
  /\ ~SomeBatchSucceeded
  /\ exitCode = 1

\* C9: the output file is written only after every batch has been collected
\* and the result sorted; an interrupt during extraction leaves no file.
C9_NoFileBeforeAllCollected ==
  /\ file.state # "absent" =>
       /\ pc = "exited"
       /\ completed = Len(batches)
       /\ \A k \in 1..Len(batches) : status[k] = "collected"
       /\ IsSortedAscending(all_features)
  /\ pc \in {"extract", "seq", "pool", "interrupted"} => file.state = "absent"

C9_Witness ==
  /\ pc = "interrupted"
  /\ \E k \in 1..Len(batches) : status[k] = "collected" /\ result[k] # <<>>
  /\ \E k \in 1..Len(batches) : status[k] = "running"
  /\ file.state = "absent"

\* C10: in both modes every batch is handed to process_structure_batch
\* exactly once: never twice, failed batches are not run again, and once
\* extraction has returned every batch, also those after a failed one, has
\* been run.
C10_EachBatchOnce ==
  /\ \A k \in 1..Len(batches) :
       /\ runCount[k] <= 1
       /\ (status[k] = "pending" <=> runCount[k] = 0)
  /\ pc \in {"save", "exited"} => \A k \in 1..Len(batches) : runCount[k] = 1

C10_Witness ==
  /\ pc = "save"
  /\ n_jobs > 1
  /\ Len(batches) >= 2
  /\ result[1] = <<>>
  /\ result[2] # <<>>

====
